---- MODULE Spec2Model ----
(***************************************************************************)
(* The streaming chat bridge of backend/main.py: the chat() handler, the   *)
(* worker thread run_in_thread() that relays the events of stream_chat()   *)
(* into thread_queue, the generator generate() that drains the queue into  *)
(* server-sent frames, and the writes it makes once the stream is over.    *)
(* Text payloads are sequences of characters, so that "".join() is         *)
(* concatenation and Python truthiness is "not the empty sequence".        *)
(* The producer is the environment: it yields any events stream_chat's     *)
(* contract allows (thinking and text events, then one done event) or      *)
(* raises.  With the signature of claude_service.py:17-20, which has no    *)
(* system_prompt parameter, the call of main.py:728-732 raises TypeError   *)
(* before the first event: that is WorkerFail with no event put.           *)
(***************************************************************************)
EXTENDS Integers, Sequences, FiniteSets, TLC

\* ---------------------------------------------------------------- bounds
\* Most Thinking/TextDelta events one turn's producer yields.
MaxEvents == 3

\* Most upstream messages stream_chat consumes before the completion message
\* or the end of the upstream sequence.
MaxUpstream == 4

\* Most submit_quiz calls made on the assignment.
MaxSubmits == 3

\* ------------------------------------------------------------ value sets
\* Python None.
NULL == "None"

\* data of a ("text", data) event: delta.get("text", "") may be empty.
TextPayloads == {<< >>, <<"a">>, <<"b">>}

\* data of a ("thinking", data) event: block.thinking.
ThinkingPayloads == {<< >>, <<"t">>}

\* data of a ("done", data) event: None, or the session id reported upstream.
DoneTokens == {NULL, "", "sess-1"}

\* sessions.claude_session_id before the turn.
StoredTokens == {NULL, "sess-0"}

\* What the bearer credential is: absent, one supabase.auth.get_user raises
\* on, one it answers with no user, or one of a user.
Credentials == {"missing", "error", "nouser", "valid"}

\* The sessions row of the path's session_id: none, another user's, the caller's.
SessionRows == {"absent", "foreign", "owned"}

\* The optional upload: none, one with text, one without extractable text
\* (or of an unsupported type).
Uploads == {"none", "text", "notext"}

\* The exception stream_chat (or calling it) raises, if any.
Exceptions == {"RuntimeError", "OtherError"}

\* The Form field message, and the marker chat() appends for an upload.
message == <<"q">>
AttachedSuffix == <<"+doc">>

\* The None that _produce puts last; a record so that it compares with events.
Sentinel == [type |-> "sentinel", data |-> NULL]

VARIABLES
  credential,          \* input: the request's credential
  session_row,         \* input: the sessions row selected by id and user_id
  upload,              \* input: the uploaded file
  prior_session_id,    \* sessions.claude_session_id when the request arrived
  pc,                  \* position of chat() and then of generate()
  http_status,         \* 0 while undecided, else the response status
  messages,            \* rows of the messages table of this session
  sessions_claude_session_id,  \* sessions.claude_session_id now
  session_updates,     \* number of sessions.update() calls executed
  claude_session_id,   \* chat(): the token read at line 670
  queue_created,       \* chat(): thread_queue exists (line 721)
  thread_queue,        \* items put and not yet got
  puts,                \* every item ever put on thread_queue, in order
  worker,              \* run_in_thread: "idle", "running", "done_yielded", "finished"
  raised,              \* the exception stream_chat raised, or NULL
  received,            \* every item generate() got from thread_queue, in order
  raw_response_chunks, \* generate(): list of text payloads
  final_session_id,    \* generate(): token of the done event
  full_response,       \* generate(): "".join(raw_response_chunks)
  frames,              \* every frame generate() yielded, in order
  timed_out,           \* generate(): thread_queue.get raised Empty
  finalizer_runs,      \* times the code after the terminal yield was entered
  write_failed,        \* the finalizer write that raised: NULL, "insert", "update"
  \* stream_chat (claude_service.py)
  sc_pc,               \* "off", "iterating", "returned" or "raised"
  resume,              \* options.resume: the claude_session_id argument
  upstream,            \* the messages of query() consumed so far, in order
  session_id,          \* stream_chat: local session_id
  in_tool,             \* stream_chat: local in_tool
  yielded,             \* the events stream_chat yielded so far, in order
  \* two turns on one conversation
  turn_pc,             \* per turn: "idle", "streaming", "update", "finished"
  turn_claude_session_id,  \* per turn: the token read at line 670
  turn_final_session_id,   \* per turn: final_session_id at line 793
  started,             \* the turns in the order they read the session
  write_log,           \* the turns in the order their update of line 794 ran
  \* submit_quiz (main.py 532-575)
  quiz_questions,      \* quiz_questions rows: id -> correct_answer, marks
  qa_status,           \* quiz_assignments.status
  qa_answers,          \* quiz_assignments.answers
  qa_score,            \* quiz_assignments.score
  qa_submitted_at,     \* quiz_assignments.submitted_at
  quiz_now,            \* the clock read by datetime.now()
  quiz_response        \* the response of the last submit_quiz call

bridgeVars == <<credential, session_row, upload, prior_session_id, pc,
                http_status, messages, sessions_claude_session_id,
                session_updates, claude_session_id, queue_created,
                thread_queue, puts, worker, raised, received,
                raw_response_chunks, final_session_id, full_response, frames,
                timed_out, finalizer_runs, write_failed>>
streamVars == <<sc_pc, resume, upstream, session_id, in_tool, yielded>>
raceVars == <<turn_pc, turn_claude_session_id, turn_final_session_id, started,
              write_log>>
quizVars == <<quiz_questions, qa_status, qa_answers, qa_score, qa_submitted_at,
              quiz_now, quiz_response>>

vars == <<bridgeVars, streamVars, raceVars, quizVars>>

\* What a step of chat() or generate() leaves alone besides its own state.
extVars == <<write_failed, streamVars, raceVars, quizVars>>

inputVars == <<credential, session_row, upload, prior_session_id>>
storeVars == <<messages, sessions_claude_session_id, session_updates>>
workerVars == <<thread_queue, puts, worker, raised>>
genVars == <<received, raw_response_chunks, final_session_id, full_response,
             frames, timed_out, finalizer_runs>>

\* ------------------------------------------------------------- helpers
\* Python truthiness of a text payload (a str).
TruthyText(s) == s # << >>

\* Variant: the token is stored without the test of line 793.
TruthyTokenNotTested(t) == TRUE

\* Python truthiness of a token (None or a str).
TruthyToken(t) == t # NULL /\ t # ""

\* "".join(chunks)
RECURSIVE Join(_)
Join(chunks) ==
  IF chunks = << >> THEN << >> ELSE Head(chunks) \o Join(Tail(chunks))

\* sse_format("message", json.dumps({"type": t, "content": c}))
MessageFrame(t, c) == [event |-> "message", type |-> t, content |-> c]

\* sse_format("done", json.dumps({"session_id": s}))
DoneFrame(s) == [event |-> "done", type |-> "session_id", content |-> s]

\* Variant: a verification error lets the request through.
get_current_user_fail_open(c) ==
  IF c = "missing" THEN 401
  ELSE IF c = "error" THEN 200
  ELSE IF c = "nouser" THEN 401
  ELSE 200

\* auth.get_current_user: 200 when it returns a user, 401 when it raises.
get_current_user(c) ==
  IF c = "missing" THEN 401          \* no credentials
  ELSE IF c = "error" THEN 401       \* get_user raised: except Exception
  ELSE IF c = "nouser" THEN 401      \* raised inside try, re-raised as 401
  ELSE 200

\* The select of lines 660-666: rows with this id and this user_id.
SessionFound(row) == row = "owned"

\* Variant: the queue is made with maxsize=1, so that a put blocks while an
\* item waits.
QueueHasRoomOfOne(q) == Len(q) < 1

\* Variant: the queue is made with a capacity, the length of a longest
\* production's thinking and text events.
QueueHasRoomBounded(q) == Len(q) < MaxEvents

\* Line 721: Queue() has maxsize 0, so a put never blocks, whatever waits.
QueueHasRoom(q) == TRUE

\* run_in_thread: what the future holds after "except RuntimeError: pass".
FutureException(exc) == IF exc = "RuntimeError" THEN NULL ELSE exc

\* ----------------------------------------------------------------- Init
\* The two turns of the concurrent-turn specification.
Turns == {1, 2}

\* The question ids of the quiz, and the options of an answer.
QuestionIds == {"q1", "q2"}
Options == {"A", "B"}

\* stream_chat is not running.
StreamOff ==
  /\ sc_pc = "off"
  /\ resume = NULL
  /\ upstream = << >>
  /\ session_id = NULL
  /\ in_tool = FALSE
  /\ yielded = << >>

\* No second turn is modelled.
RaceOff ==
  /\ turn_pc = [t \in Turns |-> "off"]
  /\ turn_claude_session_id = [t \in Turns |-> NULL]
  /\ turn_final_session_id = [t \in Turns |-> NULL]
  /\ started = << >>
  /\ write_log = << >>

\* No quiz is modelled.
QuizOff ==
  /\ quiz_questions = [q \in QuestionIds |-> [correct_answer |-> "A", marks |-> 1]]
  /\ qa_status = "off"
  /\ qa_answers = NULL
  /\ qa_score = NULL
  /\ qa_submitted_at = NULL
  /\ quiz_now = 0
  /\ quiz_response = NULL

\* No chat request is modelled.
BridgeOff ==
  /\ credential = "valid"
  /\ session_row = "owned"
  /\ upload = "none"
  /\ pc = "off"
  /\ http_status = 0
  /\ messages = << >>
  /\ session_updates = 0
  /\ claude_session_id = NULL
  /\ queue_created = FALSE
  /\ thread_queue = << >>
  /\ puts = << >>
  /\ worker = "idle"
  /\ raised = NULL
  /\ received = << >>
  /\ raw_response_chunks = << >>
  /\ final_session_id = NULL
  /\ full_response = << >>
  /\ frames = << >>
  /\ timed_out = FALSE
  /\ finalizer_runs = 0
  /\ write_failed = NULL

Init ==
  /\ StreamOff
  /\ RaceOff
  /\ QuizOff
  /\ write_failed = NULL
  /\ credential \in Credentials
  /\ session_row \in SessionRows
  /\ upload \in Uploads
  /\ prior_session_id \in StoredTokens
  /\ pc = "auth"
  /\ http_status = 0
  /\ messages = << >>
  /\ sessions_claude_session_id = prior_session_id
  /\ session_updates = 0
  /\ claude_session_id = NULL
  /\ queue_created = FALSE
  /\ thread_queue = << >>
  /\ puts = << >>
  /\ worker = "idle"
  /\ raised = NULL
  /\ received = << >>
  /\ raw_response_chunks = << >>
  /\ final_session_id = NULL
  /\ full_response = << >>
  /\ frames = << >>
  /\ timed_out = FALSE
  /\ finalizer_runs = 0

\* ------------------------------------------------------- chat(), lines 651-723
\* Depends(get_current_user): 401 before chat()'s body runs.
Authenticate ==
  /\ pc = "auth"
  /\ IF get_current_user(credential) = 200
       THEN /\ pc' = "load_session"
            /\ http_status' = http_status
       ELSE /\ pc' = "rejected"
            /\ http_status' = get_current_user(credential)
  /\ UNCHANGED <<extVars, inputVars, storeVars, claude_session_id, queue_created,
                 workerVars, genVars>>

\* Lines 658-670: load the session, 404 unless the caller owns it.
LoadSession ==
  /\ pc = "load_session"
  /\ IF SessionFound(session_row)
       THEN /\ pc' = "build_prompt"
            /\ claude_session_id' = sessions_claude_session_id
            /\ http_status' = http_status
       ELSE /\ pc' = "rejected"
            /\ http_status' = 404
            /\ claude_session_id' = claude_session_id
  /\ UNCHANGED <<extVars, inputVars, storeVars, queue_created, workerVars, genVars>>

\* Lines 672-686: 400 when the upload yields no text.
BuildPrompt ==
  /\ pc = "build_prompt"
  /\ IF upload = "notext"
       THEN /\ pc' = "rejected"
            /\ http_status' = 400
       ELSE /\ pc' = "save_user"
            /\ http_status' = http_status
  /\ UNCHANGED <<extVars, inputVars, storeVars, claude_session_id, queue_created,
                 workerVars, genVars>>

\* Variant: the user's message is not inserted before the stream.
SaveUserMessageSkipped ==
  /\ pc = "save_user"
  /\ pc' = "prepare"
  /\ UNCHANGED <<extVars, inputVars, http_status, storeVars, claude_session_id,
                 queue_created, workerVars, genVars>>

\* Lines 688-695: insert the user's message.
SaveUserMessage ==
  /\ pc = "save_user"
  /\ messages' = Append(messages,
       [role |-> "user",
        content |-> message \o (IF upload # "none" THEN AttachedSuffix ELSE << >>)])
  /\ pc' = "prepare"
  /\ UNCHANGED <<extVars, inputVars, http_status, sessions_claude_session_id,
                 session_updates, claude_session_id, queue_created,
                 workerVars, genVars>>

\* Lines 697-723 and 801-809: profile lookup, the queue and the executor are
\* created, and the StreamingResponse over generate() is returned.
PrepareStream ==
  /\ pc = "prepare"
  /\ queue_created' = TRUE
  /\ http_status' = 200
  /\ pc' = "generate"
  /\ UNCHANGED <<extVars, inputVars, storeVars, claude_session_id, workerVars, genVars>>

\* ------------------------------------------- run_in_thread(), lines 725-740
\* Line 733: stream_chat yields a thinking or text event and _produce puts it.
ProduceEvent ==
  /\ worker = "running"
  /\ QueueHasRoom(thread_queue)
  /\ Len(puts) < MaxEvents
  /\ \E ev \in [type : {"text"}, data : TextPayloads]
             \cup [type : {"thinking"}, data : ThinkingPayloads] :
       /\ thread_queue' = Append(thread_queue, ev)
       /\ puts' = Append(puts, ev)
  /\ UNCHANGED <<extVars, inputVars, pc, http_status, storeVars, claude_session_id,
                 queue_created, worker, raised, genVars>>

\* claude_service.py 57-62 and line 733: stream_chat yields ("done", token),
\* its last event, and _produce puts it.
ProduceDone ==
  /\ worker = "running"
  /\ QueueHasRoom(thread_queue)
  /\ \E tok \in DoneTokens :
       /\ thread_queue' = Append(thread_queue, [type |-> "done", data |-> tok])
       /\ puts' = Append(puts, [type |-> "done", data |-> tok])
  /\ worker' = "done_yielded"
  /\ UNCHANGED <<extVars, inputVars, pc, http_status, storeVars, claude_session_id,
                 queue_created, raised, genVars>>

\* Lines 734-738: stream_chat is exhausted; the finally block puts None and
\* asyncio.run returns.
WorkerReturn ==
  /\ worker = "done_yielded"
  /\ QueueHasRoom(thread_queue)
  /\ thread_queue' = Append(thread_queue, Sentinel)
  /\ puts' = Append(puts, Sentinel)
  /\ worker' = "finished"
  /\ UNCHANGED <<extVars, inputVars, pc, http_status, storeVars, claude_session_id,
                 queue_created, raised, genVars>>

\* Variant: None is put after the loop, not in a finally block, so that a
\* failing producer puts no Sentinel.
WorkerFailNoFinally ==
  /\ worker = "running"
  /\ \E exc \in Exceptions : raised' = exc
  /\ worker' = "finished"
  /\ UNCHANGED <<extVars, inputVars, pc, http_status, storeVars, claude_session_id,
                 queue_created, thread_queue, puts, genVars>>

\* Lines 728-740: stream_chat, or the call of it, raises before its done
\* event; the finally block still puts None, then the exception leaves
\* asyncio.run.
WorkerFail ==
  /\ worker = "running"
  /\ QueueHasRoom(thread_queue)
  /\ \E exc \in Exceptions : raised' = exc
  /\ thread_queue' = Append(thread_queue, Sentinel)
  /\ puts' = Append(puts, Sentinel)
  /\ worker' = "finished"
  /\ UNCHANGED <<extVars, inputVars, pc, http_status, storeVars, claude_session_id,
                 queue_created, genVars>>

\* ------------------------------------------------ generate(), lines 742-799
\* Lines 743-745: first resumption of the generator submits run_in_thread.
GenerateStart ==
  /\ pc = "generate"
  /\ worker' = "running"
  /\ raw_response_chunks' = << >>
  /\ final_session_id' = NULL
  /\ pc' = "get"
  /\ UNCHANGED <<extVars, inputVars, http_status, storeVars, claude_session_id,
                 queue_created, thread_queue, puts, raised, received,
                 full_response, frames, timed_out, finalizer_runs>>

\* Variant: a frame is yielded for an event with empty data too.
FramesOfNoEmptyCheck(item) ==
  IF item.type \in {"thinking", "text"}
    THEN <<MessageFrame(item.type, item.data)>>
    ELSE << >>

\* Lines 757-769: the frames yielded for an item (none or one), a thinking
\* or text event yielding one when its data is truthy.
FramesOf(item) ==
  IF item.type \in {"thinking", "text"} /\ TruthyText(item.data)
    THEN <<MessageFrame(item.type, item.data)>>
    ELSE << >>

\* Lines 763-765: a text event with truthy data is appended to the chunks.
AppendChunk(chunks, item) ==
  IF item.type = "text" /\ TruthyText(item.data)
    THEN Append(chunks, item.data)
    ELSE chunks

\* Variant: the done event is dropped.
RecordDoneIgnored(final, item) == final

\* Lines 770-771: a done event sets final_session_id.
RecordDone(final, item) ==
  IF item.type = "done" THEN item.data ELSE final

\* Lines 749-771: one item is got and dispatched; the generator suspends at
\* the yield when the item makes a frame, and loops otherwise.
GetItem ==
  /\ pc = "get"
  /\ thread_queue # << >>
  /\ LET item == Head(thread_queue) IN
       /\ thread_queue' = Tail(thread_queue)
       /\ received' = Append(received, item)
       /\ raw_response_chunks' = AppendChunk(raw_response_chunks, item)
       /\ final_session_id' = RecordDone(final_session_id, item)
       /\ frames' = frames \o FramesOf(item)
       /\ pc' = IF item.type = "sentinel" THEN "await_future"
                ELSE IF FramesOf(item) # << >> THEN "yield_frame"
                ELSE "get"
  /\ UNCHANGED <<extVars, inputVars, http_status, storeVars, claude_session_id,
                 queue_created, puts, worker, raised, full_response,
                 timed_out, finalizer_runs>>

\* Variant: on timeout the partial transcript is stored at once.
IdleTimeoutPersists ==
  /\ pc = "get"
  /\ thread_queue = << >>
  /\ timed_out' = TRUE
  /\ messages' =
       IF raw_response_chunks # << >>
         THEN Append(messages, [role |-> "assistant",
                                content |-> Join(raw_response_chunks)])
         ELSE messages
  /\ pc' = "await_future"
  /\ UNCHANGED <<extVars, inputVars, http_status, sessions_claude_session_id,
                 session_updates, claude_session_id, queue_created, workerVars,
                 received, raw_response_chunks, final_session_id,
                 full_response, frames, finalizer_runs>>

\* Lines 750-753: nothing arrived for 600 seconds.
IdleTimeout ==
  /\ pc = "get"
  /\ thread_queue = << >>
  /\ timed_out' = TRUE
  /\ pc' = "await_future"
  /\ UNCHANGED <<extVars, inputVars, http_status, storeVars, claude_session_id,
                 queue_created, workerVars, received, raw_response_chunks,
                 final_session_id, full_response, frames, finalizer_runs>>

\* The response asks the generator for its next frame after a yield of
\* lines 759 / 766.
ResumeAfterFrame ==
  /\ pc = "yield_frame"
  /\ pc' = "get"
  /\ UNCHANGED <<extVars, inputVars, http_status, storeVars, claude_session_id,
                 queue_created, workerVars, genVars>>

\* The client goes away while the generator is suspended at a yield: the
\* generator is closed there (GeneratorExit), and generate() has no finally.
Disconnect ==
  /\ pc \in {"yield_frame", "yield_done"}
  /\ pc' = "closed"
  /\ UNCHANGED <<extVars, inputVars, http_status, storeVars, claude_session_id,
                 queue_created, workerVars, genVars>>

\* Lines 773-783: wait for run_in_thread, swallow a RuntimeError, join the
\* chunks and yield the done frame; any other exception leaves generate().
AwaitFuture ==
  /\ pc = "await_future"
  /\ worker = "finished"
  /\ IF FutureException(raised) \in {NULL, "RuntimeError"}
       THEN /\ full_response' = Join(raw_response_chunks)
            /\ frames' = Append(frames, DoneFrame(final_session_id))
            /\ pc' = "yield_done"
       ELSE /\ pc' = "raised"
            /\ UNCHANGED <<full_response, frames>>
  /\ UNCHANGED <<extVars, inputVars, http_status, storeVars, claude_session_id,
                 queue_created, workerVars, received, raw_response_chunks,
                 final_session_id, timed_out, finalizer_runs>>

\* Lines 785-792: resumed after the done frame, insert the assistant message
\* when there is text.
PersistAssistant ==
  /\ pc = "yield_done"
  /\ finalizer_runs' = finalizer_runs + 1
  /\ messages' =
       IF TruthyText(full_response)
         THEN Append(messages, [role |-> "assistant", content |-> full_response])
         ELSE messages
  /\ pc' = "update_session"
  /\ UNCHANGED <<extVars, inputVars, http_status, sessions_claude_session_id,
                 session_updates, claude_session_id, queue_created, workerVars,
                 received, raw_response_chunks, final_session_id,
                 full_response, frames, timed_out>>

\* Lines 793-799: store the new resume token when there is one.
UpdateSession ==
  /\ pc = "update_session"
  /\ IF TruthyToken(final_session_id)
       THEN /\ sessions_claude_session_id' = final_session_id
            /\ session_updates' = session_updates + 1
       ELSE UNCHANGED <<sessions_claude_session_id, session_updates>>
  /\ pc' = "finished"
  /\ UNCHANGED <<extVars, inputVars, http_status, messages, claude_session_id,
                 queue_created, workerVars, genVars>>

Next ==
  \/ Authenticate
  \/ LoadSession
  \/ BuildPrompt
  \/ SaveUserMessage
  \/ PrepareStream
  \/ GenerateStart
  \/ ProduceEvent
  \/ ProduceDone
  \/ WorkerReturn
  \/ WorkerFail
  \/ GetItem
  \/ IdleTimeout
  \/ ResumeAfterFrame
  \/ Disconnect
  \/ AwaitFuture
  \/ PersistAssistant
  \/ UpdateSession

Spec == Init /\ [][Next]_vars


\* The worker thread runs whenever it can: the upstream sequence ends.
SpecFair ==
  Spec /\ WF_vars(ProduceEvent \/ ProduceDone \/ WorkerReturn \/ WorkerFail)

\* ------------------------------------------- the store fails, lines 785-799
\* Lines 786-792: the insert of the assistant message raises; the exception
\* leaves generate() and line 793 is not reached.
PersistAssistantFails ==
  /\ pc = "yield_done"
  /\ TruthyText(full_response)
  /\ finalizer_runs' = finalizer_runs + 1
  /\ write_failed' = "insert"
  /\ pc' = "raised"
  /\ UNCHANGED <<streamVars, raceVars, quizVars, inputVars, http_status,
                 storeVars, claude_session_id, queue_created, workerVars,
                 received, raw_response_chunks, final_session_id,
                 full_response, frames, timed_out>>

\* Lines 794-799: the update of the session raises.
UpdateSessionFails ==
  /\ pc = "update_session"
  /\ TruthyToken(final_session_id)
  /\ write_failed' = "update"
  /\ pc' = "raised"
  /\ UNCHANGED <<streamVars, raceVars, quizVars, inputVars, http_status,
                 storeVars, claude_session_id, queue_created, workerVars,
                 genVars>>

NextStore ==
  \/ Next
  \/ PersistAssistantFails
  \/ UpdateSessionFails

SpecStore == Init /\ [][NextStore]_vars

\* ---------------------------------------- stream_chat, claude_service.py 17-62
\* session_id of an init SystemMessage: message.data is empty or has no such
\* key (None), or holds an empty or a real id.
InitTokens == {NULL, "", "up-1"}

\* session_id of a ResultMessage.
ResultTokens == {NULL, "", "up-2"}

\* The claude_session_id stream_chat is called with.
ResumeTokens == {NULL, "up-1"}

\* content of an AssistantMessage: thinking, text and tool-use blocks.
AssistantContents ==
  { << >>,
    <<[block |-> "ThinkingBlock", text |-> <<"t">>]>>,
    <<[block |-> "TextBlock", text |-> <<"a">>],
      [block |-> "ThinkingBlock", text |-> << >>]>> }

\* Python's "a or b" on tokens.
PyOrSecondFirst(a, b) == IF b # NULL /\ b # "" THEN b ELSE a

PyOr(a, b) == IF a # NULL /\ a # "" THEN a ELSE b

\* Lines 54-56: one ("thinking", block.thinking) per ThinkingBlock of content.
RECURSIVE ThinkingEvents(_)
ThinkingEvents(content) ==
  IF content = << >> THEN << >>
  ELSE IF Head(content).block = "ThinkingBlock"
    THEN <<[type |-> "thinking", data |-> Head(content).text]>>
           \o ThinkingEvents(Tail(content))
    ELSE ThinkingEvents(Tail(content))

InitStream ==
  /\ BridgeOff
  /\ prior_session_id = NULL
  /\ sessions_claude_session_id = NULL
  /\ RaceOff
  /\ QuizOff
  /\ sc_pc = "call"
  /\ resume \in ResumeTokens
  /\ upstream = << >>
  /\ session_id = NULL
  /\ in_tool = FALSE
  /\ yielded = << >>

\* Lines 27-35: options are built, session_id = None, in_tool = False, and the
\* iteration of query() begins.
StreamStart ==
  /\ sc_pc = "call"
  /\ session_id' = NULL
  /\ in_tool' = FALSE
  /\ sc_pc' = "iterating"
  /\ UNCHANGED <<bridgeVars, raceVars, quizVars, resume, upstream, yielded>>

\* Lines 36-38: a SystemMessage; an init one sets session_id.
OnSystemMessage ==
  /\ sc_pc = "iterating"
  /\ Len(upstream) < MaxUpstream
  /\ \E m \in [kind : {"system"}, sub : {"init"}, arg : InitTokens]
             \cup [kind : {"system"}, sub : {"other"}, arg : {NULL}] :
       /\ upstream' = Append(upstream, m)
       /\ session_id' = IF m.sub = "init" THEN m.arg ELSE session_id
  /\ UNCHANGED <<bridgeVars, raceVars, quizVars, sc_pc, resume, in_tool, yielded>>

\* Lines 42-45: content_block_start; a tool_use block opens a tool span.
OnContentBlockStart ==
  /\ sc_pc = "iterating"
  /\ Len(upstream) < MaxUpstream
  /\ \E btype \in {"tool_use", "text"} :
       /\ upstream' = Append(upstream,
            [kind |-> "content_block_start", sub |-> btype, arg |-> NULL])
       /\ in_tool' = IF btype = "tool_use" THEN TRUE ELSE in_tool
  /\ UNCHANGED <<bridgeVars, raceVars, quizVars, sc_pc, resume, session_id, yielded>>

\* Lines 46-49: content_block_delta; a text_delta outside a tool span is
\* yielded as a text event.
OnContentBlockDelta ==
  /\ sc_pc = "iterating"
  /\ Len(upstream) < MaxUpstream
  /\ \E m \in [kind : {"content_block_delta"}, sub : {"text_delta"},
                 arg : {<< >>, <<"a">>}]
             \cup [kind : {"content_block_delta"}, sub : {"input_json_delta"},
                    arg : {<< >>}] :
       /\ upstream' = Append(upstream, m)
       /\ yielded' = IF m.sub = "text_delta" /\ ~in_tool
                       THEN Append(yielded, [type |-> "text", data |-> m.arg])
                       ELSE yielded
  /\ UNCHANGED <<bridgeVars, raceVars, quizVars, sc_pc, resume, session_id, in_tool>>

\* Variant: the stop of a block leaves in_tool as it is.
OnContentBlockStopKeepsTool ==
  /\ sc_pc = "iterating"
  /\ Len(upstream) < MaxUpstream
  /\ upstream' = Append(upstream,
       [kind |-> "content_block_stop", sub |-> NULL, arg |-> NULL])
  /\ UNCHANGED <<bridgeVars, raceVars, quizVars, sc_pc, resume, session_id,
                 in_tool, yielded>>

\* Lines 50-51: content_block_stop closes the tool span.
OnContentBlockStop ==
  /\ sc_pc = "iterating"
  /\ Len(upstream) < MaxUpstream
  /\ upstream' = Append(upstream,
       [kind |-> "content_block_stop", sub |-> NULL, arg |-> NULL])
  /\ in_tool' = FALSE
  /\ UNCHANGED <<bridgeVars, raceVars, quizVars, sc_pc, resume, session_id, yielded>>

\* Lines 52-56: an AssistantMessage; its ThinkingBlocks are yielded.
OnAssistantMessage ==
  /\ sc_pc = "iterating"
  /\ Len(upstream) < MaxUpstream
  /\ \E content \in AssistantContents :
       /\ upstream' = Append(upstream,
            [kind |-> "assistant", sub |-> NULL, arg |-> content])
       /\ yielded' = yielded \o ThinkingEvents(content)
  /\ UNCHANGED <<bridgeVars, raceVars, quizVars, sc_pc, resume, session_id, in_tool>>

\* Variant: the completion message yields done and the loop goes on.
OnResultMessageNoReturn ==
  /\ sc_pc = "iterating"
  /\ \E sid \in ResultTokens :
       /\ upstream' = Append(upstream, [kind |-> "result", sub |-> NULL, arg |-> sid])
       /\ session_id' = PyOr(sid, session_id)
       /\ yielded' = Append(yielded, [type |-> "done", data |-> PyOr(sid, session_id)])
  /\ UNCHANGED <<bridgeVars, raceVars, quizVars, sc_pc, resume, in_tool>>

\* Lines 57-60: a ResultMessage; done is yielded and stream_chat returns.
OnResultMessage ==
  /\ sc_pc = "iterating"
  /\ \E sid \in ResultTokens :
       /\ upstream' = Append(upstream, [kind |-> "result", sub |-> NULL, arg |-> sid])
       /\ session_id' = PyOr(sid, session_id)
       /\ yielded' = Append(yielded, [type |-> "done", data |-> PyOr(sid, session_id)])
  /\ sc_pc' = "returned"
  /\ UNCHANGED <<bridgeVars, raceVars, quizVars, resume, in_tool>>

\* Line 62: the upstream sequence ends with no completion message.
UpstreamEnds ==
  /\ sc_pc = "iterating"
  /\ yielded' = Append(yielded, [type |-> "done", data |-> session_id])
  /\ sc_pc' = "returned"
  /\ UNCHANGED <<bridgeVars, raceVars, quizVars, resume, upstream, session_id, in_tool>>

\* Line 35: query() raises; the exception leaves stream_chat.
UpstreamRaises ==
  /\ sc_pc = "iterating"
  /\ sc_pc' = "raised"
  /\ UNCHANGED <<bridgeVars, raceVars, quizVars, resume, upstream, session_id,
                 in_tool, yielded>>

NextStream ==
  \/ StreamStart
  \/ OnSystemMessage
  \/ OnContentBlockStart
  \/ OnContentBlockDelta
  \/ OnContentBlockStop
  \/ OnAssistantMessage
  \/ OnResultMessage
  \/ UpstreamEnds
  \/ UpstreamRaises

SpecStream == InitStream /\ [][NextStream]_vars


\* ------------------------------ two turns on one conversation, lines 651-799
\* The token the producer of turn t reports in its done event.
TurnToken(t) == IF t = 1 THEN "sess-1" ELSE "sess-2"

InitRace ==
  /\ BridgeOff
  /\ prior_session_id \in StoredTokens
  /\ sessions_claude_session_id = prior_session_id
  /\ StreamOff
  /\ QuizOff
  /\ turn_pc = [t \in Turns |-> "idle"]
  /\ turn_claude_session_id = [t \in Turns |-> NULL]
  /\ turn_final_session_id = [t \in Turns |-> NULL]
  /\ started = << >>
  /\ write_log = << >>

raceRest == <<credential, session_row, upload, prior_session_id, pc,
              http_status, session_updates, claude_session_id, queue_created,
              workerVars, genVars, write_failed, streamVars, quizVars>>

\* Lines 658-695: turn t reads the session's token, with no lock taken, and
\* inserts its user message.
TurnLoadSession(t) ==
  /\ turn_pc[t] = "idle"
  /\ turn_claude_session_id' =
       [turn_claude_session_id EXCEPT ![t] = sessions_claude_session_id]
  /\ started' = Append(started, t)
  /\ messages' = Append(messages, [role |-> "user", content |-> message])
  /\ turn_pc' = [turn_pc EXCEPT ![t] = "streaming"]
  /\ UNCHANGED <<raceRest, sessions_claude_session_id, turn_final_session_id,
                 write_log>>

\* Lines 742-783: the stream of turn t runs up to its done frame; its
\* final_session_id is the token of the done event read, or None.
TurnStream(t) ==
  /\ turn_pc[t] = "streaming"
  /\ \E tok \in {NULL, TurnToken(t)} :
       turn_final_session_id' = [turn_final_session_id EXCEPT ![t] = tok]
  /\ turn_pc' = [turn_pc EXCEPT ![t] = "update"]
  /\ UNCHANGED <<raceRest, messages, sessions_claude_session_id,
                 turn_claude_session_id, started, write_log>>

\* Variant: the update is conditional on the stored token still being the one
\* the turn read, so that a later writer does not overwrite an earlier one.
TurnUpdateSessionIfUnchanged(t) ==
  /\ turn_pc[t] = "update"
  /\ IF TruthyToken(turn_final_session_id[t])
       THEN /\ sessions_claude_session_id' =
                 IF sessions_claude_session_id = turn_claude_session_id[t]
                   THEN turn_final_session_id[t]
                   ELSE sessions_claude_session_id
            /\ write_log' = Append(write_log, t)
       ELSE UNCHANGED <<sessions_claude_session_id, write_log>>
  /\ turn_pc' = [turn_pc EXCEPT ![t] = "finished"]
  /\ UNCHANGED <<raceRest, messages, turn_claude_session_id,
                 turn_final_session_id, started>>

\* Lines 793-799: the finalizer of turn t stores its token, whatever the
\* session holds by now.
TurnUpdateSession(t) ==
  /\ turn_pc[t] = "update"
  /\ IF TruthyToken(turn_final_session_id[t])
       THEN /\ sessions_claude_session_id' = turn_final_session_id[t]
            /\ write_log' = Append(write_log, t)
       ELSE UNCHANGED <<sessions_claude_session_id, write_log>>
  /\ turn_pc' = [turn_pc EXCEPT ![t] = "finished"]
  /\ UNCHANGED <<raceRest, messages, turn_claude_session_id,
                 turn_final_session_id, started>>

NextRace ==
  \E t \in Turns :
    \/ TurnLoadSession(t)
    \/ TurnStream(t)
    \/ TurnUpdateSession(t)

SpecRace == InitRace /\ [][NextRace]_vars

\* ------------------------------------------------ submit_quiz, lines 532-575
\* Who calls: the student the assignment is for, another student, a teacher.
Callers == {"student", "other_student", "teacher"}

\* marks of a question.
Marks == {1, 2}

\* body.answers: question id -> chosen option; "qx" is no question of the quiz.
AnswerSets ==
  UNION {[ids -> Options] : ids \in SUBSET (QuestionIds \cup {"qx"})}

\* Variant: the status of the assignment is not looked at.
submit_quiz_status_unchecked(caller, status) ==
  IF caller = "teacher" THEN 403
  ELSE IF caller = "other_student" THEN 404
  ELSE 200

\* Lines 539-550: 403 unless a student, 404 unless the caller's assignment,
\* 400 when already submitted.
submit_quiz_status(caller, status) ==
  IF caller = "teacher" THEN 403
  ELSE IF caller = "other_student" THEN 404
  ELSE IF status = "submitted" THEN 400
  ELSE 200

\* Lines 559-562: the marks of the answered questions of the quiz whose
\* correct_answer is the chosen option, summed over body.answers.
RECURSIVE Score(_, _, _)
Score(answers, qmap, ids) ==
  IF ids = {} THEN 0
  ELSE LET qid == CHOOSE q \in ids : TRUE IN
    (IF qid \in DOMAIN qmap /\ qmap[qid].correct_answer = answers[qid]
       THEN qmap[qid].marks ELSE 0)
    + Score(answers, qmap, ids \ {qid})

InitQuiz ==
  /\ BridgeOff
  /\ prior_session_id = NULL
  /\ sessions_claude_session_id = NULL
  /\ StreamOff
  /\ RaceOff
  /\ quiz_questions \in [QuestionIds -> [correct_answer : Options, marks : Marks]]
  /\ qa_status = "pending"
  /\ qa_answers = NULL
  /\ qa_score = NULL
  /\ qa_submitted_at = NULL
  /\ quiz_now = 0
  /\ quiz_response = NULL

\* One call of submit_quiz: the handler has no await, so it runs as one step.
SubmitQuiz ==
  /\ quiz_now < MaxSubmits
  /\ \E caller \in Callers, answers \in AnswerSets :
       LET code == submit_quiz_status(caller, qa_status)
           score == Score(answers, quiz_questions, DOMAIN answers)
       IN IF code = 200
            THEN /\ qa_status' = "submitted"
                 /\ qa_answers' = answers
                 /\ qa_score' = score
                 /\ qa_submitted_at' = quiz_now
                 /\ quiz_response' = [caller |-> caller, code |-> 200,
                                      score |-> score, submitted_at |-> quiz_now]
            ELSE /\ UNCHANGED <<qa_status, qa_answers, qa_score, qa_submitted_at>>
                 /\ quiz_response' = [caller |-> caller, code |-> code,
                                      score |-> 0, submitted_at |-> 0]
  /\ quiz_now' = quiz_now + 1
  /\ UNCHANGED <<bridgeVars, streamVars, raceVars, quiz_questions>>

NextQuiz == SubmitQuiz

SpecQuiz == InitQuiz /\ [][NextQuiz]_vars

TypeOK ==
  /\ pc \in {"auth", "load_session", "build_prompt", "save_user", "prepare",
             "generate", "get", "yield_frame", "await_future", "yield_done",
             "update_session", "finished", "closed", "raised", "rejected"}
  /\ worker \in {"idle", "running", "done_yielded", "finished"}
  /\ http_status \in {0, 200, 400, 401, 404}
  /\ raised \in {NULL} \cup Exceptions

\* ------------------------------------------------ vocabulary of the claims
\* The payloads of the text events among items, in order.
RECURSIVE TextsOf(_)
TextsOf(items) ==
  IF items = << >> THEN << >>
  ELSE IF Head(items).type = "text"
    THEN <<Head(items).data>> \o TextsOf(Tail(items))
    ELSE TextsOf(Tail(items))

\* The frames a client is to see for a sequence of channel items: one per
\* thinking or text event whose text is not empty, same type, same content.
RECURSIVE ExpectedFrames(_)
ExpectedFrames(items) ==
  IF items = << >> THEN << >>
  ELSE LET it == Head(items) IN
    IF it.type = "thinking" /\ Len(it.data) > 0
      THEN <<[event |-> "message", type |-> "thinking", content |-> it.data]>>
             \o ExpectedFrames(Tail(items))
    ELSE IF it.type = "text" /\ Len(it.data) > 0
      THEN <<[event |-> "message", type |-> "text", content |-> it.data]>>
             \o ExpectedFrames(Tail(items))
    ELSE ExpectedFrames(Tail(items))

\* The text events among items.
TextsOnly(items) == SelectSeq(items, LAMBDA i : i.type = "text")

TerminalFrames == SelectSeq(frames, LAMBDA f : f.event = "done")
NonTerminalFrames == SelectSeq(frames, LAMBDA f : f.event = "message")
AssistantRows == SelectSeq(messages, LAMBDA m : m.role = "assistant")
SentinelPuts == SelectSeq(puts, LAMBDA i : i.type = "sentinel")
DonePuts == SelectSeq(puts, LAMBDA i : i.type = "done")
DoneReceived == SelectSeq(received, LAMBDA i : i.type = "done")
SentinelReceived == SelectSeq(received, LAMBDA i : i.type = "sentinel") # << >>

\* The assistant rows that hold exactly the concatenation of the text payloads
\* among items: no row when it is empty.
ExpectedAssistantRows(items) ==
  IF Join(TextsOf(items)) = << >> THEN << >>
  ELSE <<[role |-> "assistant", content |-> Join(TextsOf(items))]>>

\* generate() is over without the client having gone away.
StreamOver == pc \in {"finished", "raised"}

\* ------------------------------------------------------------------ C1
\* C1: for every accepted turn and every behaviour of the producer (normal
\* completion, an exception of any type, idle timeout) the stream of generate()
\* holds exactly one terminal done frame, and it is the last frame.
C1_ExactlyOneTerminalFrame ==
  /\ Len(TerminalFrames) <= 1
  /\ StreamOver =>
       /\ Len(TerminalFrames) = 1
       /\ frames[Len(frames)].event = "done"

\* ------------------------------------------------------------------ C2
\* C2: when the producer raises an exception of any type after text events,
\* the exception does not reach generate(): the client still gets the done
\* frame and the assistant message stored is the concatenation of the text
\* payloads put before the failure (here: when no idle timeout cut reading).
C2_ProducerErrorContained ==
  (raised # NULL /\ Join(TextsOf(puts)) # << >> /\ ~timed_out) =>
     /\ pc # "raised"
     /\ StreamOver =>
          /\ Len(TerminalFrames) = 1
          /\ AssistantRows = ExpectedAssistantRows(puts)

\* ------------------------------------------------------------------ C3
\* C3: in a turn whose reading ended by the Sentinel, the assistant message
\* stored equals the concatenation, in arrival order, of the text payloads;
\* thinking payloads are not in it and nothing is stored when it is empty.
C3_TranscriptPersisted ==
  (SentinelReceived /\ StreamOver) =>
     AssistantRows = ExpectedAssistantRows(received)

\* ------------------------------------------------------------------ C4
\* C4 as stated: a Done event emitted by the producer with a token t makes the
\* stored resume token, once the turn is finalized, and the session_id of the
\* terminal frame equal to t.
C4_EmittedTokenStored ==
  (pc = "finished" /\ DonePuts # << >> /\ DonePuts[1].data \notin {NULL, ""}) =>
     /\ sessions_claude_session_id = DonePuts[1].data
     /\ frames[Len(frames)].content = DonePuts[1].data

\* C4 amended: a Done event with a non-empty token t that generate() read from
\* the channel makes the session_id of the terminal frame equal to t, and the
\* stored resume token equal to t once the turn is finalized, whatever token
\* was read at turn start.
C4_ReceivedTokenStored ==
  (DoneReceived # << >> /\ DoneReceived[1].data \notin {NULL, ""}) =>
     /\ TerminalFrames # << >> =>
          TerminalFrames[1].content = DoneReceived[1].data
     /\ pc = "finished" =>
          sessions_claude_session_id = DoneReceived[1].data

C4_Witness ==
  /\ pc = "finished"
  /\ DoneReceived # << >>
  /\ DoneReceived[1].data = "sess-1"
  /\ claude_session_id = "sess-0"
  /\ sessions_claude_session_id = "sess-1"

\* ------------------------------------------------------------------ C5
\* C5: when no Done event reached generate() (the producer failed, or the idle
\* timeout fired), or the Done event carried None, the session_id of the
\* terminal frame is None and the stored resume token is as it was.
C5_NoTokenNoUpdate ==
  (DoneReceived = << >> \/ DoneReceived[1].data = NULL) =>
     /\ TerminalFrames # << >> => TerminalFrames[1].content = NULL
     /\ sessions_claude_session_id = prior_session_id
     /\ session_updates = 0

C5_Witness ==
  /\ pc = "finished"
  /\ DoneReceived = << >>
  /\ raised = "RuntimeError"
  /\ prior_session_id = "sess-0"
  /\ TerminalFrames # << >>

\* ------------------------------------------------------------------ C6
\* C6: after an idle timeout the terminal frame is emitted without waiting for
\* the worker: generate() is never held at the terminal frame by a worker
\* that has not finished.
C6_TimeoutDoesNotWaitForWorker ==
  (timed_out /\ pc = "await_future") => ENABLED AwaitFuture

\* ------------------------------------------------------------------ C7
\* C7: the Sentinel is put at most once, after every event of the turn's
\* producer, and exactly once when the worker has finished, on the normal
\* path and on every exceptional path.
C7_SentinelExactlyOnce ==
  /\ Len(SentinelPuts) <= 1
  /\ worker = "finished" => Len(SentinelPuts) = 1
  /\ \A i \in 1..Len(puts) : puts[i].type = "sentinel" => i = Len(puts)

C7_Witness ==
  /\ worker = "finished"
  /\ raised = "OtherError"
  /\ Len(puts) = 1
  /\ puts[1].type = "sentinel"

\* ------------------------------------------------------------------ C8
\* C8: the non-terminal frames are, in order, one frame per thinking or text
\* event with non-empty text that generate() read, and the items read are the
\* items put, in the order put.
C8_FramesMirrorEvents ==
  /\ Len(received) <= Len(puts)
  /\ received = SubSeq(puts, 1, Len(received))
  /\ NonTerminalFrames = ExpectedFrames(received)

C8_Witness ==
  /\ pc = "finished"
  /\ Len(received) = MaxEvents + 2
  /\ Len(NonTerminalFrames) = 2
  /\ NonTerminalFrames[1].type # NonTerminalFrames[2].type

\* ------------------------------------------------------------------ C9
\* C9: the code after the stream runs exactly once however the stream ends;
\* after a disconnect that follows a received text, the transcript is stored.
C9_FinalizerAlwaysRuns ==
  /\ pc \in {"finished", "closed"} => finalizer_runs = 1
  /\ (pc = "closed" /\ raw_response_chunks # << >>) =>
       AssistantRows = <<[role |-> "assistant",
                          content |-> Join(raw_response_chunks)]>>

\* ------------------------------------------------------------------ C10
\* C10: a request whose credential is missing or fails verification is
\* answered 401, one whose session is absent or not the caller's 404, and
\* neither creates the channel, starts the worker or writes a row.
C10_RejectedBeforeTurn ==
  /\ credential # "valid" =>
       /\ pc \in {"auth", "rejected"}
       /\ pc = "rejected" => http_status = 401
  /\ (credential = "valid" /\ session_row # "owned") =>
       /\ pc \in {"auth", "load_session", "rejected"}
       /\ pc = "rejected" => http_status = 404
  /\ (credential # "valid" \/ session_row # "owned") =>
       /\ ~queue_created
       /\ worker = "idle"
       /\ messages = << >>
       /\ session_updates = 0
       /\ sessions_claude_session_id = prior_session_id

C10_Witness ==
  /\ pc = "rejected"
  /\ http_status = 401
  /\ credential = "error"
  /\ session_row = "owned"

\* ------------------------------------------------------------------ C11
\* Message i of ms lies in a tool span: a content_block_start of a tool_use
\* block precedes it with no content_block_stop in between.
InToolSpan(ms, i) ==
  \E j \in 1..(i - 1) :
    /\ ms[j].kind = "content_block_start"
    /\ ms[j].sub = "tool_use"
    /\ \A k \in (j + 1)..(i - 1) : ms[k].kind # "content_block_stop"

IsTextDelta(m) == m.kind = "content_block_delta" /\ m.sub = "text_delta"

\* The thinking and text events owed for message i of ms.
OwedFor(ms, i) ==
  IF IsTextDelta(ms[i]) /\ ~InToolSpan(ms, i)
    THEN <<[type |-> "text", data |-> ms[i].arg]>>
  ELSE IF ms[i].kind = "assistant"
    THEN LET th == SelectSeq(ms[i].arg, LAMBDA b : b.block = "ThinkingBlock")
         IN [n \in 1..Len(th) |-> [type |-> "thinking", data |-> th[n].text]]
  ELSE << >>

RECURSIVE OwedUpTo(_, _)
OwedUpTo(ms, n) ==
  IF n = 0 THEN << >> ELSE OwedUpTo(ms, n - 1) \o OwedFor(ms, n)

\* C11: of the messages stream_chat consumed, exactly the text deltas outside
\* a tool span are yielded as text events, and every ThinkingBlock of an
\* AssistantMessage is yielded as a thinking event, tool span or not, all in
\* upstream order.
C11_TextOutsideToolSpans ==
  SelectSeq(yielded, LAMBDA e : e.type # "done")
    = OwedUpTo(upstream, Len(upstream))

C11_Witness ==
  /\ \E i, j \in 1..Len(upstream) :
       /\ i < j
       /\ IsTextDelta(upstream[i]) /\ upstream[i].arg = <<"a">>
       /\ InToolSpan(upstream, i)
       /\ IsTextDelta(upstream[j]) /\ upstream[j].arg = <<"a">>
       /\ ~InToolSpan(upstream, j)
  /\ yielded = <<[type |-> "text", data |-> <<"a">>]>>

\* ------------------------------------------------------------------ C12
\* C12: stream_chat yields done at most once and nothing after it; once the
\* upstream has ended without raising, the events end with exactly one done;
\* no upstream message is consumed after the first completion message.
C12_DoneOnceAndLast ==
  /\ Len(SelectSeq(yielded, LAMBDA e : e.type = "done")) <= 1
  /\ \A i \in 1..Len(yielded) : yielded[i].type = "done" => i = Len(yielded)
  /\ sc_pc = "returned" =>
       /\ yielded # << >>
       /\ yielded[Len(yielded)].type = "done"
  /\ \A i \in 1..Len(upstream) : upstream[i].kind = "result" => i = Len(upstream)

C12_Witness ==
  /\ sc_pc = "returned"
  /\ Len(upstream) = MaxUpstream + 1
  /\ upstream[Len(upstream)].kind = "result"
  /\ Len(yielded) >= 3

\* ------------------------------------------------------------------ C16
\* The session id of the last init SystemMessage among ms, None without one.
RECURSIVE LastInitId(_)
LastInitId(ms) ==
  IF ms = << >> THEN NULL
  ELSE LET m == ms[Len(ms)] IN
    IF m.kind = "system" /\ m.sub = "init" THEN m.arg
    ELSE LastInitId(SubSeq(ms, 1, Len(ms) - 1))

\* C16: the token of the done event is the session id of the completion
\* message when that is present and not empty, else the id captured from the
\* most recent init message, else None; the resume token passed in is the
\* done token only when the upstream reported it.
C16_DoneTokenSource ==
  (yielded # << >> /\ yielded[Len(yielded)].type = "done") =>
     LET token == yielded[Len(yielded)].data
         last == upstream[Len(upstream)]
     IN /\ token =
             IF upstream # << >> /\ last.kind = "result" /\ last.arg \notin {NULL, ""}
               THEN last.arg
               ELSE LastInitId(upstream)
        /\ (resume # NULL /\ token = resume) =>
             \E i \in 1..Len(upstream) :
               /\ upstream[i].kind \in {"system", "result"}
               /\ upstream[i].arg = resume

C16_Witness ==
  /\ sc_pc = "returned"
  /\ resume = "up-1"
  /\ Len(upstream) = 2
  /\ upstream[1].kind = "system" /\ upstream[1].arg = "up-1"
  /\ upstream[2].kind = "result" /\ upstream[2].arg = "up-2"
  /\ yielded[1].data = "up-2"

\* ------------------------------------------------------------------ C13
\* C13: the two writes of the finalizer are independent: when the insert of
\* the assistant message raises and a resume token was captured, the update
\* of the session is attempted all the same.
C13_WritesIndependent ==
  (write_failed = "insert" /\ final_session_id \notin {NULL, ""}) =>
     session_updates = 1

C15_WorkerFinishesAfterTimeout ==
  /\ (timed_out ~> worker = "finished")
  /\ [][timed_out =>
          /\ received' = received
          /\ raw_response_chunks' = raw_response_chunks
          /\ Len(frames') >= Len(frames)
          /\ SubSeq(frames', 1, Len(frames)) = frames
          /\ (puts' # puts => frames' = frames /\ messages' = messages
                /\ sessions_claude_session_id' = sessions_claude_session_id)]_vars
  /\ []((timed_out /\ pc = "finished") =>
          AssistantRows = ExpectedAssistantRows(received))

C15_Witness ==
  /\ timed_out
  /\ worker = "finished"
  /\ pc = "finished"
  /\ Len(thread_queue) = MaxEvents + 2
  /\ received = << >>

\* ------------------------------------------------------------------ C17
\* C17: no assistant message and no session update is written before the
\* terminal done frame is emitted; the token read at turn start is the stored
\* one, which this turn leaves alone while producing and draining, and the
\* turn updates the session at most once.
C17_WritesAfterTerminalFrame ==
  /\ (AssistantRows # << >> \/ session_updates > 0) => TerminalFrames # << >>
  /\ session_updates <= 1
  /\ pc \in {"build_prompt", "save_user", "prepare", "generate", "get",
             "yield_frame", "await_future", "yield_done"} =>
       /\ claude_session_id = prior_session_id
       /\ sessions_claude_session_id = prior_session_id
       /\ session_updates = 0

C17_Witness ==
  /\ pc = "finished"
  /\ AssistantRows # << >>
  /\ session_updates = 1
  /\ prior_session_id = "sess-0"
  /\ sessions_claude_session_id = "sess-1"

\* ------------------------------------------------------------------ C18
\* C18: no lock orders the turns of a conversation: two turns both under way
\* before either has written read the same starting token, and the stored
\* token is always that of the turn whose update ran last.
C18_LastWriterWins ==
  /\ (write_log = << >> /\ Len(started) = 2) =>
       /\ turn_claude_session_id[1] = prior_session_id
       /\ turn_claude_session_id[2] = prior_session_id
  /\ sessions_claude_session_id =
       IF write_log = << >> THEN prior_session_id
       ELSE turn_final_session_id[write_log[Len(write_log)]]

\* The turn that started later finished first, and the earlier turn's token
\* then replaced the later turn's.
C18_Witness ==
  /\ started = <<1, 2>>
  /\ write_log = <<2, 1>>
  /\ turn_pc = [t \in Turns |-> "finished"]
  /\ turn_claude_session_id[1] = turn_claude_session_id[2]
  /\ sessions_claude_session_id = "sess-1"

\* ------------------------------------------------------------------ C19
UserRows == SelectSeq(messages, LAMBDA m : m.role = "user")

UserRow ==
  [role |-> "user",
   content |-> IF upload = "none" THEN <<"q">> ELSE <<"q", "+doc">>]

OwedScore(a, qs) ==
  (IF "q1" \in DOMAIN a /\ a["q1"] = qs["q1"].correct_answer
     THEN qs["q1"].marks ELSE 0)
  + (IF "q2" \in DOMAIN a /\ a["q2"] = qs["q2"].correct_answer
       THEN qs["q2"].marks ELSE 0)

\* C20: an assignment is submitted at most once: the first successful call
\* sets status, answers, score and submitted_at, the score being the sum of
\* the marks of the questions answered correctly; every later call of the
\* student is answered 400 and no later call changes the four fields.
C20_SubmittedOnce ==
  /\ [](qa_status = "submitted" => qa_score = OwedScore(qa_answers, quiz_questions))
  /\ [][(qa_status = "pending" /\ quiz_response'.code = 200) =>
          /\ qa_status' = "submitted"
          /\ qa_score' = quiz_response'.score
          /\ qa_submitted_at' = quiz_now]_vars
  /\ [][qa_status = "submitted" =>
          /\ UNCHANGED <<qa_status, qa_answers, qa_score, qa_submitted_at>>
          /\ quiz_response'.code # 200
          /\ quiz_response'.caller = "student" => quiz_response'.code = 400]_vars

C20_Witness ==
  /\ qa_status = "submitted"
  /\ qa_score = 3
  /\ qa_submitted_at = 0
  /\ quiz_now = 2
  /\ quiz_response.caller = "student"
  /\ quiz_response.code = 400
====
